---- MODULE Spec2Model ----
(***************************************************************************)
(* A model of the command-line calculator: the four Operation classes      *)
(* (app/operation), Calculation and CalculationHistory (app/calculation)    *)
(* and the Calculator with its REPL loop (app/calculator).                  *)
(*                                                                         *)
(* Operands are decimal.Decimal values.  A Decimal is modelled by what     *)
(* Decimal.as_tuple() shows of it: a sign, the coefficient's digits and an *)
(* exponent, or one of the special values Infinity, NaN, sNaN.  The        *)
(* arithmetic is the decimal module's under its default context            *)
(* (prec = 28, ROUND_HALF_EVEN, traps InvalidOperation, DivisionByZero,    *)
(* Overflow), which the program never changes.                             *)
(***************************************************************************)
EXTENDS Integers, Sequences, FiniteSets, TLC

VARIABLES
    lists,      \* the heap of Python list objects: list id -> sequence of Calculation
    snap,       \* the list a caller got from get_history() (a list id), 0 for none
    loop,       \* Calculator.start's position: "idle", "running", "exited", "crashed"
    out,        \* what the last operation printed, in order
    last,       \* the last operation performed and its arguments
    ret,        \* how the last operation ended: a return value or an exception
    calc,       \* a Calculation object under direct use: a, b, operation, _result
    execCount,  \* how many times operation.execute has been invoked on calc
    added,      \* the caller's record of its add_calculation calls since the
                \* history's creation or its last clear_history, in call order
    cleared,    \* how many entries the caller had added when it last called
                \* clear_history, -1 before the first such call
    memo,       \* what the first successful access to calc.result returned, None
                \* while there was none
    stream      \* the input still to come when the input is a given finite stream:
                \* lines and interrupts, in order

vars ==
    <<lists, snap, loop, out, last, ret, calc, execCount, added, cleared, memo, stream>>

\* ------------------------------------------------------------------ bounds

\* the longest input stream given to a Calculator session
MaxStream == 3
\* the longest history a Calculator session builds in the model
MaxHist == 2
\* the longest list (stored history or snapshot) of the CalculationHistory model
MaxLen == 3
\* how many execute invocations are followed on one Calculation
MaxExec == 3

\* the default decimal context of the interpreter: precision and exponent range
Prec == 28
Emin == -999999

\* ------------------------------------------------------- characters, strings

\* A string is a sequence of one-character strings.
DigitChars == <<"0", "1", "2", "3", "4", "5", "6", "7", "8", "9">>
UpperChars == <<"A", "B", "C", "D", "E", "F", "G", "H", "I", "J", "K", "L", "M",
                "N", "O", "P", "Q", "R", "S", "T", "U", "V", "W", "X", "Y", "Z">>
LowerChars == <<"a", "b", "c", "d", "e", "f", "g", "h", "i", "j", "k", "l", "m",
                "n", "o", "p", "q", "r", "s", "t", "u", "v", "w", "x", "y", "z">>
Whitespace == {" ", "\t"}

IsDigit(c) == \E i \in 1..10 : DigitChars[i] = c
DigitVal(c) == (CHOOSE i \in 1..10 : DigitChars[i] = c) - 1

\* str.lower() on one character, and on a string
LowerChar(c) ==
    IF \E i \in 1..26 : UpperChars[i] = c
    THEN LowerChars[CHOOSE i \in 1..26 : UpperChars[i] = c]
    ELSE c
lower(s) == [i \in 1..Len(s) |-> LowerChar(s[i])]

\* str.strip(): leading and trailing whitespace removed
RECURSIVE lstrip(_)
lstrip(s) == IF s # <<>> /\ Head(s) \in Whitespace THEN lstrip(Tail(s)) ELSE s
RECURSIVE rstrip(_)
rstrip(s) ==
    IF s # <<>> /\ s[Len(s)] \in Whitespace THEN rstrip(SubSeq(s, 1, Len(s) - 1)) ELSE s
strip(s) == rstrip(lstrip(s))

\* str.split(): the maximal runs of non-whitespace characters, in order
RECURSIVE SplitFrom(_, _, _)
SplitFrom(s, cur, acc) ==
    IF s = <<>>
    THEN IF cur = <<>> THEN acc ELSE Append(acc, cur)
    ELSE IF Head(s) \in Whitespace
         THEN SplitFrom(Tail(s), <<>>, IF cur = <<>> THEN acc ELSE Append(acc, cur))
         ELSE SplitFrom(Tail(s), Append(cur, Head(s)), acc)
split(s) == SplitFrom(s, <<>>, <<>>)

\* ------------------------------------------------------------ digit strings

\* int(digits) for a short digit sequence, and str(n) for n >= 0
RECURSIVE DigitsToInt(_)
DigitsToInt(d) ==
    IF d = <<>> THEN 0 ELSE 10 * DigitsToInt(SubSeq(d, 1, Len(d) - 1)) + d[Len(d)]
RECURSIVE IntToDigits(_)
IntToDigits(n) == IF n < 10 THEN <<n>> ELSE Append(IntToDigits(n \div 10), n % 10)

RECURSIVE StripLeadingZeros(_)
StripLeadingZeros(d) ==
    IF Len(d) > 1 /\ Head(d) = 0 THEN StripLeadingZeros(Tail(d)) ELSE d

Zeros(n) == [i \in 1..n |-> 0]
IsZeroDigits(d) == \A i \in 1..Len(d) : d[i] = 0

\* the digits of value(d) * n + c, for a digit sequence of any length and small n, c
RECURSIVE MulAddRaw(_, _, _)
MulAddRaw(d, n, c) ==
    IF d = <<>>
    THEN IntToDigits(c)
    ELSE LET t == d[Len(d)] * n + c
         IN  Append(MulAddRaw(SubSeq(d, 1, Len(d) - 1), n, t \div 10), t % 10)
MulAdd(d, n, c) == StripLeadingZeros(MulAddRaw(d, n, c))

\* divmod(value(d), n) by long division: the quotient's digits and the remainder
RECURSIVE LongDiv(_, _, _, _)
LongDiv(d, n, q, r) ==
    IF d = <<>>
    THEN [q |-> StripLeadingZeros(q), r |-> r]
    ELSE LET t == 10 * r + Head(d)
         IN  LongDiv(Tail(d), n, Append(q, t \div n), t % n)

\* ------------------------------------------------------------------ Decimal

\* Python's None, in the shape of a Decimal so that it compares with one
None == [k |-> "None", s |-> 0, d |-> <<>>, e |-> 0]

\* finite: (-1)^s * value(d) * 10^e;  for a nan, d is its payload
Fin(s, d, e) == [k |-> "fin", s |-> s, d |-> d, e |-> e]
Inf(s) == [k |-> "inf", s |-> s, d |-> <<>>, e |-> 0]
NaN(s, d) == [k |-> "nan", s |-> s, d |-> d, e |-> 0]
SNaN(s, d) == [k |-> "snan", s |-> s, d |-> d, e |-> 0]
\* what Decimal(str) gives for a string that is no numeral: it raises InvalidOperation
NotANumeral == [k |-> "invalid", s |-> 0, d |-> <<>>, e |-> 0]

IsZero(x) == x.k = "fin" /\ IsZeroDigits(x.d)

\* how a call ends: it returns v, or raises exception exc with message msg
Return(v) == [exc |-> "none", msg |-> "", v |-> v]
Raise(exc, msg) == [exc |-> exc, msg |-> msg, v |-> None]

Only(S) == CHOOSE x \in S : TRUE
AllDigits(s) == \A i \in 1..Len(s) : IsDigit(s[i])
IndexOf(s, c) ==
    IF \E i \in 1..Len(s) : s[i] = c
    THEN CHOOSE i \in 1..Len(s) : s[i] = c /\ \A j \in 1..(i - 1) : s[j] # c
    ELSE 0
StartsWith(s, p) == Len(s) >= Len(p) /\ SubSeq(s, 1, Len(p)) = p
DigitVals(s) == [i \in 1..Len(s) |-> DigitVal(s[i])]
\* (x \in {e} binds x to the value of e, computed once, for the stage that uses it)
\* a nan's payload: str(int(diag or '0')).lstrip('0')
Payload(s) == IF IsZeroDigits(DigitVals(s)) THEN <<>> ELSE StripLeadingZeros(DigitVals(s))

\* s before the first c (all of s without a c), and s after it (nothing without a c)
Before(s, c) == IF IndexOf(s, c) = 0 THEN s ELSE SubSeq(s, 1, IndexOf(s, c) - 1)
After(s, c) == IF IndexOf(s, c) = 0 THEN <<>> ELSE SubSeq(s, IndexOf(s, c) + 1, Len(s))
Unsigned(s) == IF s # <<>> /\ Head(s) \in {"+", "-"} THEN Tail(s) ELSE s

\* the exponent of a numeral: [sign] digits, at least one digit
ExponentOk(expstr) == Unsigned(expstr) # <<>> /\ AllDigits(Unsigned(expstr))
ExponentValue(expstr) ==
    IF expstr # <<>> /\ Head(expstr) = "-"
    THEN -DigitsToInt(DigitVals(Unsigned(expstr)))
    ELSE DigitsToInt(DigitVals(Unsigned(expstr)))
\* the mantissa of a numeral starts with a digit, or with a point and a digit
MantissaStartOk(mant) ==
    /\ mant # <<>>
    /\ \/ IsDigit(mant[1])
       \/ mant[1] = "." /\ Len(mant) >= 2 /\ IsDigit(mant[2])

\* the numeral part of Decimal(str): digits [. digits] [e [sign] digits]
ParseFields(sign, mant, intpart, frac, hasexp, expstr) ==
    IF /\ MantissaStartOk(mant)
       /\ AllDigits(intpart)
       /\ AllDigits(frac)
       /\ hasexp => ExponentOk(expstr)
    THEN Fin(sign, StripLeadingZeros(DigitVals(intpart \o frac)),
             (IF hasexp THEN ExponentValue(expstr) ELSE 0) - Len(frac))
    ELSE NotANumeral
ParseMantissa(sign, mant, hasexp, expstr) ==
    Only({ParseFields(sign, mant, intpart, frac, hasexp, expstr) :
              intpart \in {Before(mant, ".")}, frac \in {After(mant, ".")}})
ParseNumber(sign, body) ==
    Only({ParseMantissa(sign, mant, IndexOf(body, "e") # 0, expstr) :
              mant \in {Before(body, "e")}, expstr \in {After(body, "e")}})

\* Decimal(str): surrounding whitespace and underscores dropped, letters in any case;
\* a numeral, Inf, Infinity, NaN<payload> or sNaN<payload>, each with an optional sign
ParseBody(sign, body) ==
    IF body \in {<<"i", "n", "f">>, <<"i", "n", "f", "i", "n", "i", "t", "y">>}
    THEN Inf(sign)
    ELSE IF StartsWith(body, <<"n", "a", "n">>) /\ AllDigits(SubSeq(body, 4, Len(body)))
    THEN NaN(sign, Payload(SubSeq(body, 4, Len(body))))
    ELSE IF StartsWith(body, <<"s", "n", "a", "n">>) /\ AllDigits(SubSeq(body, 5, Len(body)))
    THEN SNaN(sign, Payload(SubSeq(body, 5, Len(body))))
    ELSE ParseNumber(sign, body)
ParseSigned(u) ==
    Only({ParseBody(IF u # <<>> /\ Head(u) = "-" THEN 1 ELSE 0, body) : body \in {Unsigned(u)}})
DecimalFromString(t) ==
    Only({ParseSigned(u) : u \in {lower(SelectSeq(strip(t), LAMBDA c : c # "_"))}})

\* Decimal._fix at the default precision: a coefficient longer than Prec digits is
\* rounded half-even to Prec digits.  (The exponent limits Emax and Etiny are not
\* reached by the operands of this model.)
RoundHalfEven(keep, drop) ==
    IF \/ drop[1] > 5
       \/ /\ drop[1] = 5
          /\ \/ ~IsZeroDigits(Tail(drop))
             \/ keep[Len(keep)] % 2 = 1
    THEN MulAdd(keep, 1, 1)
    ELSE keep
Rounded(s, d, e) == IF Len(d) > Prec THEN Fin(s, SubSeq(d, 1, Prec), e + 1) ELSE Fin(s, d, e)
Fix(s, d, e) ==
    IF Len(d) <= Prec
    THEN Fin(s, d, e)
    ELSE Rounded(s, RoundHalfEven(SubSeq(d, 1, Prec), SubSeq(d, Prec + 1, Len(d))),
                 e + Len(d) - Prec)

Min(x, y) == IF x < y THEN x ELSE y
Abs(n) == IF n < 0 THEN -n ELSE n
\* the signed coefficient of a finite x at exponent exp <= x.e
SignedAt(x, exp) == (IF x.s = 1 THEN -1 ELSE 1) * DigitsToInt(x.d) * 10 ^ (x.e - exp)

\* Decimal._check_nans: a signalling NaN operand raises InvalidOperation (trapped); a
\* quiet NaN operand is the result, the first operand's before the second's
HasSNaN(a, b) == a.k = "snan" \/ b.k = "snan"
HasNaN(a, b) == a.k = "nan" \/ b.k = "nan"
FirstNaN(a, b) == IF a.k = "nan" THEN a ELSE b

\* Decimal.__add__ on finite operands: n is the sum of the signed coefficients at exp
AddFinite(a, b, exp, n) ==
    IF IsZero(a) /\ IsZero(b)
    THEN Fix(Min(a.s, b.s), <<0>>, exp)
    ELSE Fix(IF n < 0 THEN 1 ELSE 0, IntToDigits(Abs(n)), exp)

\* Decimal.__add__
DecAdd(a, b) ==
    IF HasSNaN(a, b) THEN Raise("InvalidOperation", "sNaN")
    ELSE IF HasNaN(a, b) THEN Return(FirstNaN(a, b))
    ELSE IF a.k = "inf" /\ b.k = "inf" /\ a.s # b.s THEN Raise("InvalidOperation", "-INF + INF")
    ELSE IF a.k = "inf" THEN Return(a)
    ELSE IF b.k = "inf" THEN Return(b)
    ELSE Return(AddFinite(a, b, Min(a.e, b.e),
                          SignedAt(a, Min(a.e, b.e)) + SignedAt(b, Min(a.e, b.e))))

\* Decimal.copy_negate
Negate(x) == [x EXCEPT !.s = 1 - x.s]

\* Decimal.__sub__: the NaN check, then self + other.copy_negate()
DecSub(a, b) ==
    IF HasSNaN(a, b) THEN Raise("InvalidOperation", "sNaN")
    ELSE IF HasNaN(a, b) THEN Return(FirstNaN(a, b))
    ELSE DecAdd(a, Negate(b))

\* Decimal.__mul__, the result's sign given
MulSigned(a, b, sign) ==
    IF HasSNaN(a, b) THEN Raise("InvalidOperation", "sNaN")
    ELSE IF HasNaN(a, b) THEN Return(FirstNaN(a, b))
    ELSE IF (a.k = "inf" /\ IsZero(b)) \/ (b.k = "inf" /\ IsZero(a))
    THEN Raise("InvalidOperation", "(+-)INF * 0")
    ELSE IF a.k = "inf" \/ b.k = "inf" THEN Return(Inf(sign))
    ELSE IF IsZero(a) \/ IsZero(b) THEN Return(Fix(sign, <<0>>, a.e + b.e))
    ELSE Return(Fix(sign, IntToDigits(DigitsToInt(a.d) * DigitsToInt(b.d)), a.e + b.e))
DecMul(a, b) == MulSigned(a, b, (a.s + b.s) % 2)

\* the exact quotient's trailing zeros are dropped while the exponent is below the ideal
RECURSIVE TowardIdeal(_, _, _, _)
TowardIdeal(s, d, exp, ideal) ==
    IF exp < ideal /\ Len(d) > 1 /\ d[Len(d)] = 0
    THEN TowardIdeal(s, SubSeq(d, 1, Len(d) - 1), exp + 1, ideal)
    ELSE Fix(s, d, exp)

\* Decimal.__truediv__ on finite nonzero operands, after the division of the
\* coefficients: an inexact quotient ending in 0 or 5 gets a sticky 1 added
Quotient(sign, q, r, exp, ideal) ==
    IF r # 0
    THEN Fix(sign, IF q[Len(q)] % 5 = 0 THEN [q EXCEPT ![Len(q)] = @ + 1] ELSE q, exp)
    ELSE TowardIdeal(sign, q, exp, ideal)
Divided(sign, qr, exp, ideal) == Quotient(sign, qr.q, qr.r, exp, ideal)
DivFinite(a, b, sign, shift) ==
    Divided(sign, LongDiv(a.d \o Zeros(shift), DigitsToInt(b.d), <<>>, 0),
            a.e - b.e - shift, a.e - b.e)

\* Decimal.__truediv__, the result's sign given
DivSigned(a, b, sign) ==
    IF HasSNaN(a, b) THEN Raise("InvalidOperation", "sNaN")
    ELSE IF HasNaN(a, b) THEN Return(FirstNaN(a, b))
    ELSE IF a.k = "inf" /\ b.k = "inf" THEN Raise("InvalidOperation", "(+-)INF/(+-)INF")
    ELSE IF a.k = "inf" THEN Return(Inf(sign))
    ELSE IF b.k = "inf" THEN Return(Fin(sign, <<0>>, Emin - Prec + 1))
    ELSE IF IsZero(b)
    THEN IF IsZero(a) THEN Raise("InvalidOperation", "0 / 0")
                      ELSE Raise("DivisionByZero", "x / 0")
    ELSE IF IsZero(a) THEN Return(Fix(sign, <<0>>, a.e - b.e))
    ELSE Return(DivFinite(a, b, sign, Len(b.d) - Len(a.d) + Prec + 1))
DecDiv(a, b) == DivSigned(a, b, (a.s + b.s) % 2)

\* Decimal.__eq__ against the int 0: a signalling NaN raises, a quiet NaN is unequal
EqualsZero(b) ==
    IF b.k = "snan" THEN Raise("InvalidOperation", "sNaN")
    ELSE Return(IsZero(b))

\* --------------------------------------------------------------- Operation

\* The Operation objects are stateless: an instance is modelled by its class name.
OperationClasses == {"Addition", "Subtraction", "Multiplication", "Division"}

Addition_execute(a, b) == DecAdd(a, b)
\* a mutant of Subtraction.execute: return b - a
Subtraction_execute_Swapped(a, b) == DecSub(b, a)
Subtraction_execute(a, b) == DecSub(a, b)
Multiplication_execute(a, b) == DecMul(a, b)

\* if b == 0: raise ValueError("Cannot divide by zero"); return a / b
\* (iszero is how the comparison b == 0 ended)
Division_checked(a, b, iszero) ==
    IF iszero.exc # "none" THEN Raise(iszero.exc, iszero.msg)
    ELSE IF iszero.v THEN Raise("ValueError", "Cannot divide by zero")
    ELSE DecDiv(a, b)
\* a mutant of Division.execute: return a / b, unguarded
Division_execute_Unchecked(a, b) == DecDiv(a, b)
Division_execute(a, b) == Division_checked(a, b, EqualsZero(b))

\* operation.execute(a, b), dispatched on the operation's class
execute(operation, a, b) ==
    CASE operation = "Addition" -> Addition_execute(a, b)
      [] operation = "Subtraction" -> Subtraction_execute(a, b)
      [] operation = "Multiplication" -> Multiplication_execute(a, b)
      [] operation = "Division" -> Division_execute(a, b)

\* str(operation)
Operation_str(operation) ==
    CASE operation = "Addition" -> <<"+">>
      [] operation = "Subtraction" -> <<"-">>
      [] operation = "Multiplication" -> <<"*">>
      [] operation = "Division" -> <<"/">>

\* -------------------------------------------------------------- Calculation

\* Calculation.__init__: the operands, the operation, and no result yet
Calculation(a, b, operation) ==
    [a |-> a, b |-> b, operation |-> operation, _result |-> None]

\* The result property.  obj is the object after the access, res what the access
\* returns or raises, executed how many times it invoked operation.execute.
\* self._result = self.operation.execute(self.a, self.b), r being how execute ended
\* a mutant of Computed: a failed evaluation leaves a zero in the cache
Computed_CachesFailure(self, r) ==
    IF r.exc = "none"
    THEN [obj |-> [self EXCEPT !._result = r.v], res |-> Return(r.v), executed |-> 1]
    ELSE [obj |-> [self EXCEPT !._result = Fin(0, <<0>>, 0)], res |-> r, executed |-> 1]
Computed(self, r) ==
    IF r.exc = "none"
    THEN [obj |-> [self EXCEPT !._result = r.v], res |-> Return(r.v), executed |-> 1]
    ELSE [obj |-> self, res |-> r, executed |-> 1]
\* a mutant of the result property: it executes the operation at every access
Calculation_result_Recomputes(self) ==
    Computed(self, execute(self.operation, self.a, self.b))
Calculation_result(self) ==
    IF self._result = None
    THEN Computed(self, execute(self.operation, self.a, self.b))
    ELSE [obj |-> self, res |-> Return(self._result), executed |-> 0]

\* Calculation.__str__: f"{self.a} {self.operation} {self.b} = {self.result}", as the
\* four interpolated parts; it reads the result property (r is how that went)
Formatted(self, r) ==
    IF r.res.exc = "none"
    THEN [obj |-> r.obj,
          res |-> Return(<<self.a, Operation_str(self.operation), self.b, r.res.v>>)]
    ELSE [obj |-> r.obj, res |-> r.res]
Calculation_str(self) == Formatted(self, Calculation_result(self))

\* CalculationFactory.create_calculation
create_calculation(a, b, operation) == Calculation(a, b, operation)

\* ------------------------------------------------------- CalculationHistory

\* The list objects live in the heap `lists`.  List HistoryList is the one
\* CalculationHistory.__init__ creates and self._history names for good; list
\* SnapshotList is the one a get_history() call creates.
HistoryList == 1
SnapshotList == 2

\* a mutant of add_calculation: self._history.insert(0, calculation)
add_calculation_AtFront(L, calculation) ==
    [L EXCEPT ![HistoryList] = <<calculation>> \o @]

\* a mutant of add_calculation: if calculation not in self._history: append it
add_calculation_Unique(L, calculation) ==
    IF \E i \in DOMAIN L[HistoryList] : L[HistoryList][i] = calculation
    THEN L
    ELSE [L EXCEPT ![HistoryList] = Append(@, calculation)]

\* self._history.append(calculation)
add_calculation(L, calculation) == [L EXCEPT ![HistoryList] = Append(@, calculation)]

\* a mutant of get_history: return self._history, the stored list itself
get_history_Alias(L) == [lists |-> L, ref |-> HistoryList]

\* return self._history.copy(): a new list with the same elements; ref names it
get_history(L) == [lists |-> [L EXCEPT ![SnapshotList] = L[HistoryList]], ref |-> SnapshotList]

\* a mutant of get_last_calculation: return self._history[0]
get_last_calculation_First(L) ==
    IF L[HistoryList] = <<>>
    THEN Raise("IndexError", "No calculations in history")
    ELSE Return(L[HistoryList][1])

\* if not self._history: raise IndexError(...); return self._history[-1]
get_last_calculation(L) ==
    IF L[HistoryList] = <<>>
    THEN Raise("IndexError", "No calculations in history")
    ELSE Return(L[HistoryList][Len(L[HistoryList])])

\* a mutant of clear_history: del self._history[1:]
clear_history_KeepsFirst(L) ==
    [L EXCEPT ![HistoryList] = IF @ = <<>> THEN <<>> ELSE <<Head(@)>>]

\* self._history.clear()
clear_history(L) == [L EXCEPT ![HistoryList] = <<>>]

\* len(history)
History_len(L) == Len(L[HistoryList])

\* list(iter(history)): the elements iter(self._history) yields, in order
RECURSIVE IterFrom(_, _)
IterFrom(l, i) == IF i > Len(l) THEN <<>> ELSE <<l[i]>> \o IterFrom(l, i + 1)
History_iter(L) == IterFrom(L[HistoryList], 1)

\* --------------------------------------------------------------- Calculator

\* Calculator.__init__: self.operations
operations ==
    <<"+">> :> "Addition" @@ <<"-">> :> "Subtraction" @@
    <<"*">> :> "Multiplication" @@ <<"/">> :> "Division" @@
    <<"a", "d", "d">> :> "Addition" @@
    <<"s", "u", "b", "t", "r", "a", "c", "t">> :> "Subtraction" @@
    <<"m", "u", "l", "t", "i", "p", "l", "y">> :> "Multiplication" @@
    <<"d", "i", "v", "i", "d", "e">> :> "Division"

\* one print call: a fixed text and the values interpolated into it
Msg(text, arg) == [text |-> text, arg |-> arg]
UseHelp == Msg("Use 'help' command for usage instructions.", <<>>)

\* What a method of the Calculator does: the heap after it, what it printed, and
\* how it ended (ret: it returned, or the exception that left it).
Done(L, printed, r) == [lists |-> L, out |-> printed, ret |-> r]

\* a mutant of ProcessResult: the calculation is recorded before its result is read
ProcessResult_RecordsFirst(L, r) ==
    IF r.res.exc = "none"
    THEN Done(add_calculation(L, r.obj),
              <<Msg("Result: ", Calculation_str(r.obj).res.v)>>, Return(None))
    ELSE IF r.res.exc = "ValueError"
    THEN Done(add_calculation(L, r.obj), <<Msg("Error: ", <<r.res.msg>>)>>, Return(None))
    ELSE Done(add_calculation(L, r.obj), <<>>, r.res)

\* Calculator._process_calculation, from the try around calculation.result on:
\* r is how the access to calculation.result went
ProcessResult(L, r) ==
    IF r.res.exc = "none"
    THEN Done(add_calculation(L, r.obj),
              <<Msg("Result: ", Calculation_str(r.obj).res.v)>>, Return(None))
    ELSE IF r.res.exc = "ValueError"
    THEN Done(L, <<Msg("Error: ", <<r.res.msg>>)>>, Return(None))
    ELSE Done(L, <<>>, r.res)

\* ... from the parsing of the operands on: a and b are what Decimal() made of them
ProcessOperands(L, operation_str, a, b) ==
    IF a = NotANumeral \/ b = NotANumeral
    THEN Done(L, <<Msg("Error: Invalid number format: ", <<>>), UseHelp>>, Return(None))
    ELSE Only({ProcessResult(L, r) :
                   r \in {Calculation_result(
                              create_calculation(a, b, operations[operation_str]))}})

\* a mutant of ProcessOperation: the operands are parsed before the operation is
\* looked up
ProcessOperation_ParsesFirst(L, parts, operation_str) ==
    IF DecimalFromString(parts[1]) = NotANumeral \/ DecimalFromString(parts[3]) = NotANumeral
    THEN Done(L, <<Msg("Error: Invalid number format: ", <<>>), UseHelp>>, Return(None))
    ELSE IF operation_str \notin DOMAIN operations
    THEN Done(L, <<Msg("Error: Unknown operation: ", operation_str), UseHelp>>, Return(None))
    ELSE Only({ProcessOperands(L, operation_str, a, b) :
                   a \in {DecimalFromString(parts[1])}, b \in {DecimalFromString(parts[3])}})

\* ... from the lookup of the operation on
ProcessOperation(L, parts, operation_str) ==
    IF operation_str \notin DOMAIN operations
    THEN Done(L, <<Msg("Error: Unknown operation: ", operation_str), UseHelp>>, Return(None))
    ELSE Only({ProcessOperands(L, operation_str, a, b) :
                   a \in {DecimalFromString(parts[1])}, b \in {DecimalFromString(parts[3])}})

\* a mutant of ProcessParts: the operation is looked up as typed, parts[1] unlowered
ProcessParts_CaseSensitive(L, parts) ==
    IF Len(parts) # 3
    THEN Done(L, <<Msg("Error: Invalid input format. Expected: <number> <operation> <number>",
                       <<>>), UseHelp>>, Return(None))
    ELSE ProcessOperation(L, parts, parts[2])

\* ... from the check of the number of parts on
ProcessParts(L, parts) ==
    IF Len(parts) # 3
    THEN Done(L, <<Msg("Error: Invalid input format. Expected: <number> <operation> <number>",
                       <<>>), UseHelp>>, Return(None))
    ELSE Only({ProcessOperation(L, parts, operation_str) :
                   operation_str \in {lower(parts[2])}})

\* Calculator._process_calculation
_process_calculation(L, user_input) ==
    Only({ProcessParts(L, parts) : parts \in {split(user_input)}})

\* Calculator._show_help
_show_help(L) == Done(L, <<Msg("Available Commands: ...", <<>>)>>, Return(None))

\* Calculator._show_history: str() of each entry in turn reads its result property
\* (t is how str() of entry i went)
RECURSIVE ShowFrom(_, _, _)
RECURSIVE ShowEntry(_, _, _, _)
ShowEntry(L, i, printed, t) ==
    IF t.res.exc = "none"
    THEN ShowFrom([L EXCEPT ![HistoryList][i] = t.obj], i + 1,
                  Append(printed, Msg("{i:2d}. ", <<i, t.res.v>>)))
    ELSE Done(L, printed, t.res)
ShowFrom(L, i, printed) ==
    IF i > Len(L[HistoryList])
    THEN Done(L, printed, Return(None))
    ELSE ShowEntry(L, i, printed, Calculation_str(L[HistoryList][i]))
_show_history(L) ==
    IF History_len(L) = 0
    THEN Done(L, <<Msg("No calculations in history.", <<>>)>>, Return(None))
    ELSE ShowFrom(L, 1, <<Msg("Calculation History:", <<>>), Msg("------", <<>>)>>)

\* a mutant of _clear_history: it removes the most recent entry only
_clear_history_PopsLast(L) ==
    Done([L EXCEPT ![HistoryList] = IF @ = <<>> THEN <<>> ELSE SubSeq(@, 1, Len(@) - 1)],
         <<Msg("Calculation history cleared.", <<>>)>>, Return(None))

\* Calculator._clear_history
_clear_history(L) ==
    Done(clear_history(L), <<Msg("Calculation history cleared.", <<>>)>>, Return(None))

\* a mutant of Calculated: the calculation is recorded whether its result was
\* computed or not (add_calculation in a finally clause)
Calculated_RecordsFailures(L, r) == Done(add_calculation(L, r.obj), <<>>, r.res)

\* Calculator.calculate, from calculation.result on: r is how that access went
Calculated(L, r) ==
    IF r.res.exc = "none"
    THEN Done(add_calculation(L, r.obj), <<>>, r.res)
    ELSE Done(L, <<>>, r.res)

\* Calculator.calculate
calculate(L, a, operation_str, b) ==
    IF operation_str \notin DOMAIN operations
    THEN Done(L, <<>>, Raise("ValueError", "Unknown operation"))
    ELSE Calculated(L, Calculation_result(
                           create_calculation(a, b, operations[operation_str])))

\* one pass of the while loop of Calculator.start on the line input() returned:
\* cont tells whether the loop goes on, done what the pass did
Pass(cont, done) == [cont |-> cont, done |-> done]
\* a mutant of Command: exit is compared as typed, user_input == 'exit'
Command_ExitAsTyped(L, user_input, word) ==
    IF user_input = <<"e", "x", "i", "t">>
    THEN Pass(FALSE, Done(L, <<Msg("Thank you for using the calculator. Goodbye!", <<>>)>>,
                          Return(None)))
    ELSE IF word = <<"h", "e", "l", "p">> THEN Pass(TRUE, _show_help(L))
    ELSE IF word = <<"h", "i", "s", "t", "o", "r", "y">> THEN Pass(TRUE, _show_history(L))
    ELSE IF word = <<"c", "l", "e", "a", "r">> THEN Pass(TRUE, _clear_history(L))
    ELSE Pass(TRUE, _process_calculation(L, user_input))
Command(L, user_input, word) ==
    IF word = <<"e", "x", "i", "t">>
    THEN Pass(FALSE, Done(L, <<Msg("Thank you for using the calculator. Goodbye!", <<>>)>>,
                          Return(None)))
    ELSE IF word = <<"h", "e", "l", "p">> THEN Pass(TRUE, _show_help(L))
    ELSE IF word = <<"h", "i", "s", "t", "o", "r", "y">> THEN Pass(TRUE, _show_history(L))
    ELSE IF word = <<"c", "l", "e", "a", "r">> THEN Pass(TRUE, _clear_history(L))
    ELSE Pass(TRUE, _process_calculation(L, user_input))
Stripped(L, user_input) ==
    IF user_input = <<>>
    THEN Pass(TRUE, Done(L, <<>>, Return(None)))
    ELSE Only({Command(L, user_input, word) : word \in {lower(user_input)}})
LoopBody(L, line) == Only({Stripped(L, user_input) : user_input \in {strip(line)}})

\* ------------------------------------------------------------------- inputs

Line3(a, op, b) == a \o <<" ">> \o op \o <<" ">> \o b

\* operator tokens: the four symbols, the four words, and words in other letter cases
OpTokens ==
    {<<"+">>, <<"-">>, <<"*">>, <<"/">>,
     <<"a", "d", "d">>, <<"s", "u", "b", "t", "r", "a", "c", "t">>,
     <<"m", "u", "l", "t", "i", "p", "l", "y">>, <<"d", "i", "v", "i", "d", "e">>,
     <<"A", "d", "d">>, <<"D", "I", "V", "I", "D", "E">>}

\* the well-formed calculation lines: 10.5 <op> 2.5 for every operator token, and the
\* divisions by zero 5 / 0 and 5 divide 0
CalculationLines ==
    {Line3(<<"1", "0", ".", "5">>, op, <<"2", ".", "5">>) : op \in OpTokens}
    \cup {Line3(<<"5">>, <<"/">>, <<"0">>),
          Line3(<<"5">>, <<"d", "i", "v", "i", "d", "e">>, <<"0">>)}

\* lines that are no calculation: wrong token counts, an unknown operator, operands
\* that are no numerals, both at once, and operands the arithmetic rejects
OddLines ==
    {<<"5", " ", "+">>,
     <<"5", " ", "+", " ", "5", " ", "5">>,
     Line3(<<"5">>, <<"%">>, <<"3">>),
     Line3(<<"a", "b", "c">>, <<"+">>, <<"3">>),
     Line3(<<"5">>, <<"+">>, <<"a", "b", "c">>),
     Line3(<<"a", "b", "c">>, <<"%">>, <<"3">>),
     Line3(<<"a", "b", "c">>, <<"/">>, <<"0">>),
     Line3(<<"i", "n", "f">>, <<"-">>, <<"i", "n", "f">>),
     Line3(<<"s", "N", "a", "N">>, <<"+">>, <<"5">>)}

\* the reserved commands, in some letter cases and with blanks around, blank lines,
\* and a calculation line with blanks around and between its parts
CommandLines ==
    {<<"e", "x", "i", "t">>, <<" ", "E", "x", "i", "t", " ">>,
     <<"h", "e", "l", "p">>,
     <<"h", "i", "s", "t", "o", "r", "y">>, <<"H", "i", "s", "t", "o", "r", "y", " ">>,
     <<"c", "l", "e", "a", "r">>, <<"\t", "C", "L", "E", "A", "R">>,
     <<>>, <<" ", "\t", " ">>,
     <<" ", "1", "0", ".", "5", "\t", "+", " ", " ", "2", ".", "5", " ">>}

Lines == CalculationLines \cup OddLines \cup CommandLines

Dec5 == Fin(0, <<5>>, 0)
Dec0 == Fin(0, <<0>>, 0)
Dec10_5 == Fin(0, <<1, 0, 5>>, -1)
Dec2_5 == Fin(0, <<2, 5>>, -1)

\* the arguments (a, operation_str, b) of the programmatic calls of calculate
CalculateArgs ==
    {<<Dec10_5, <<"+">>, Dec2_5>>,
     <<Dec10_5, <<"d", "i", "v", "i", "d", "e">>, Dec2_5>>,
     <<Dec5, <<"/">>, Dec0>>,
     <<Dec5, <<"d", "i", "v", "i", "d", "e">>, Dec0>>,
     <<Dec5, <<"D", "i", "v", "i", "d", "e">>, Dec0>>,
     <<Dec5, <<"%">>, Dec0>>,
     <<Inf(0), <<"-">>, Inf(0)>>}

\* ------------------------------------------------- the Calculator, in use

Op(name, line, args) == [op |-> name, line |-> line, args |-> args]

NoCalculation == Calculation(None, None, "none")

Init ==
    /\ lists = <<(<<>>), (<<>>)>>
    /\ snap = 0
    /\ loop = "idle"
    /\ out = <<>>
    /\ last = Op("__init__", <<>>, <<>>)
    /\ ret = Return(None)
    /\ calc = NoCalculation
    /\ execCount = 0
    /\ added = <<>>
    /\ cleared = -1
    /\ memo = None
    /\ stream = <<>>

\* Calculator.start up to its loop: the banner
Start ==
    /\ loop = "idle"
    /\ loop' = "running"
    /\ out' = <<Msg("Welcome to the Professional Calculator!", <<>>),
                Msg("Type 'help' for available commands or 'exit' to quit.", <<>>),
                Msg("------", <<>>)>>
    /\ last' = Op("start", <<>>, <<>>)
    /\ ret' = Return(None)
    /\ UNCHANGED <<lists, snap, calc, execCount, added, cleared, memo, stream>>

\* input() returns a line and the loop body runs on it.  An exception the body does
\* not catch leaves start(): the loop is over and the exception is start's.
Ran(pass) ==
    /\ lists' = pass.done.lists
    /\ out' = pass.done.out
    /\ ret' = pass.done.ret
    /\ loop' = IF pass.done.ret.exc # "none" THEN "crashed"
               ELSE IF pass.cont THEN "running" ELSE "exited"
Looped(pass) ==
    /\ Len(pass.done.lists[HistoryList]) <= MaxHist
    /\ Ran(pass)
ReadLine(line) ==
    /\ loop = "running"
    /\ Looped(LoopBody(lists, line))
    /\ last' = Op("input", line, <<>>)
    /\ UNCHANGED <<snap, calc, execCount, added, cleared, memo, stream>>

\* input() raises KeyboardInterrupt: the notice, and the loop goes on
Interrupt ==
    /\ loop = "running"
    /\ out' = <<Msg("Calculator interrupted. Type 'exit' to quit gracefully.", <<>>)>>
    /\ last' = Op("KeyboardInterrupt", <<>>, <<>>)
    /\ ret' = Return(None)
    /\ UNCHANGED <<lists, snap, loop, calc, execCount, added, cleared, memo, stream>>

\* input() raises EOFError: the notice, and the loop ends
EndOfInput ==
    /\ loop = "running"
    /\ loop' = "exited"
    /\ out' = <<Msg("Exiting calculator...", <<>>)>>
    /\ last' = Op("EOFError", <<>>, <<>>)
    /\ ret' = Return(None)
    /\ UNCHANGED <<lists, snap, calc, execCount, added, cleared, memo, stream>>

\* a caller's calculator.calculate(a, operation_str, b), outside the loop
Called(done) ==
    /\ Len(done.lists[HistoryList]) <= MaxHist
    /\ lists' = done.lists
    /\ out' = done.out
    /\ ret' = done.ret
Calculate(a, operation_str, b) ==
    /\ loop \in {"idle", "exited"}
    /\ Called(calculate(lists, a, operation_str, b))
    /\ last' = Op("calculate", <<>>, <<a, operation_str, b>>)
    /\ UNCHANGED <<snap, loop, calc, execCount, added, cleared, memo, stream>>

Next ==
    \/ Start
    \/ \E line \in Lines : ReadLine(line)
    \/ Interrupt
    \/ EndOfInput
    \/ \E args \in CalculateArgs : Calculate(args[1], args[2], args[3])

Spec == Init /\ [][Next]_vars

\* ------------------------------------------- the Calculator: what is claimed

History == lists[HistoryList]

ReservedWords ==
    {<<"e", "x", "i", "t">>, <<"h", "e", "l", "p">>,
     <<"h", "i", "s", "t", "o", "r", "y">>, <<"c", "l", "e", "a", "r">>}
\* the lines the loop hands to _process_calculation
IsRequest(line) == strip(line) # <<>> /\ lower(strip(line)) \notin ReservedWords
\* a request succeeded when its one print is the result
Succeeded(printed, r) == r.exc = "none" /\ Len(printed) = 1 /\ printed[1].text = "Result: "

\* the step just taken was a calculation request on a REPL line that failed ...
LineFailed == last'.op = "input" /\ IsRequest(last'.line) /\ ~Succeeded(out', ret')
\* ... or succeeded
LineSucceeded == last'.op = "input" /\ IsRequest(last'.line) /\ Succeeded(out', ret')
\* the step just taken was a call of calculate() that raised, or that returned
CallRaised == last'.op = "calculate" /\ ret'.exc # "none"
CallReturned == last'.op = "calculate" /\ ret'.exc = "none"

\* C1: a calculation request that fails, on a REPL line (wrong token count, unknown
\* operator, unparseable operand, division by zero, or any other failure) or through
\* calculate() when it raises, leaves the history as it was: same entries, same
\* order, same length.
C1_FailureKeepsHistory ==
    [][(LineFailed \/ CallRaised) => lists'[HistoryList] = lists[HistoryList]]_vars

\* C1 happens: a division by zero on a REPL line was reported with two entries in
\* the history
C1_Witness ==
    /\ last.op = "input"
    /\ last.line = Line3(<<"5">>, <<"/">>, <<"0">>)
    /\ out = <<Msg("Error: ", <<"Cannot divide by zero">>)>>
    /\ Len(History) = 2

\* the Calculation a request submits: its operands and its operation, result apart
Submitted(c, a, b, operation) == c.a = a /\ c.b = b /\ c.operation = operation
AppendedOne(a, b, operation) ==
    /\ Len(lists'[HistoryList]) = Len(lists[HistoryList]) + 1
    /\ SubSeq(lists'[HistoryList], 1, Len(lists[HistoryList])) = lists[HistoryList]
    /\ Submitted(lists'[HistoryList][Len(lists'[HistoryList])], a, b, operation)

\* C2: every successful calculation (a well-formed REPL line, or a calculate() call
\* that returns) appends exactly one Calculation at the end of the history: the length
\* grows by one, the new last entry holds the submitted operands and operation, and
\* the earlier entries keep their positions and contents.
C2_SuccessAppendsOne ==
    [][/\ LineSucceeded =>
              AppendedOne(DecimalFromString(split(last'.line)[1]),
                          DecimalFromString(split(last'.line)[3]),
                          operations[lower(split(last'.line)[2])])
       /\ CallReturned =>
              AppendedOne(last'.args[1], last'.args[3], operations[last'.args[2]])]_vars

\* C2 happens: "10.5 subtract 2.5" was entered with one entry in the history, and
\* the history's second entry is that subtraction
C2_Witness ==
    /\ last.op = "input"
    /\ last.line = Line3(<<"1", "0", ".", "5">>, <<"s", "u", "b", "t", "r", "a", "c", "t">>,
                         <<"2", ".", "5">>)
    /\ Len(History) = 2
    /\ History[2] = [a |-> Dec10_5, b |-> Dec2_5, operation |-> "Subtraction",
                     _result |-> Fin(0, <<8, 0>>, -1)]
    /\ History[1].operation = "Division"

\* C3: every input line that is not a reserved command is caught: _process_calculation
\* records and prints a result or prints an error message, no exception escapes it,
\* and the loop goes on to read the next line.
C3_NoLineEndsTheLoop ==
    (last.op = "input" /\ IsRequest(last.line)) =>
        /\ ret.exc = "none"
        /\ loop = "running"
        /\ out # <<>>

\* ------------------------------------------ a CalculationHistory, in use

\* the calculations a caller holds and adds: one that cannot be evaluated (a division
\* by zero) and one whose result is cached
HeldCalculations ==
    {Calculation(Dec5, Dec0, "Division"),
     [a |-> Dec10_5, b |-> Dec2_5, operation |-> "Subtraction",
      _result |-> Fin(0, <<8, 0>>, -1)]}

\* what a call of a CalculationHistory method leaves: the heap and the return
Answered(name, args, L, r) ==
    /\ lists' = L
    /\ ret' = r
    /\ last' = Op(name, <<>>, args)
    /\ UNCHANGED <<loop, out, calc, execCount, memo, stream>>

\* history.add_calculation(calculation); `added` lists what was added since the
\* creation or the last clear_history
AddCalculation(calculation) ==
    /\ Len(added) < MaxLen
    /\ Answered("add_calculation", <<calculation>>,
                add_calculation(lists, calculation), Return(None))
    /\ added' = Append(added, calculation)
    /\ UNCHANGED <<snap, cleared>>

\* snapshot = history.get_history(): the caller keeps the list returned (and drops
\* the one an earlier call returned)
Got(g) ==
    /\ Answered("get_history", <<>>, g.lists, Return(g.lists[g.ref]))
    /\ snap' = g.ref
    /\ UNCHANGED <<added, cleared>>
GetHistory == Got(get_history(lists))

\* history.get_last_calculation()
GetLastCalculation ==
    /\ Answered("get_last_calculation", <<>>, lists, get_last_calculation(lists))
    /\ UNCHANGED <<snap, added, cleared>>

\* history.clear_history()
ClearHistory ==
    /\ Answered("clear_history", <<>>, clear_history(lists), Return(None))
    /\ added' = <<>>
    /\ cleared' = Len(added)
    /\ UNCHANGED snap

\* len(history)
LenHistory ==
    /\ Answered("__len__", <<>>, lists, Return(<<History_len(lists)>>))
    /\ UNCHANGED <<snap, added, cleared>>

\* list(history)
IterHistory ==
    /\ Answered("__iter__", <<>>, lists, Return(History_iter(lists)))
    /\ UNCHANGED <<snap, added, cleared>>

\* list.reverse
RECURSIVE Reversed(_)
Reversed(l) == IF l = <<>> THEN <<>> ELSE Append(Reversed(Tail(l)), Head(l))

\* the caller mutates the list get_history() returned: snapshot.append(calculation),
\* snapshot.pop(0), snapshot.reverse()
SnapshotAppend(calculation) ==
    /\ snap # 0
    /\ Len(lists[snap]) < MaxLen
    /\ Answered("snapshot.append", <<calculation>>,
                [lists EXCEPT ![snap] = Append(@, calculation)], Return(None))
    /\ UNCHANGED <<snap, added, cleared>>
SnapshotPop ==
    /\ snap # 0
    /\ lists[snap] # <<>>
    /\ Answered("snapshot.pop", <<>>, [lists EXCEPT ![snap] = Tail(@)], Return(None))
    /\ UNCHANGED <<snap, added, cleared>>
SnapshotReverse ==
    /\ snap # 0
    /\ Len(lists[snap]) >= 2
    /\ Answered("snapshot.reverse", <<>>, [lists EXCEPT ![snap] = Reversed(@)], Return(None))
    /\ UNCHANGED <<snap, added, cleared>>

NextHistory ==
    \/ \E calculation \in HeldCalculations : AddCalculation(calculation)
    \/ GetHistory
    \/ GetLastCalculation
    \/ ClearHistory
    \/ LenHistory
    \/ IterHistory
    \/ \E calculation \in HeldCalculations : SnapshotAppend(calculation)
    \/ SnapshotPop
    \/ SnapshotReverse

SpecHistory == Init /\ [][NextHistory]_vars

\* -------------------------------------- a CalculationHistory: what is claimed

\* what get_history() returns when called now: the elements of the list it names
Listed(g) == g.lists[g.ref]

\* C4: the history keeps insertion order: whatever was added since the creation or
\* the last clear_history, get_history() and iteration yield exactly those
\* calculations in the order they were added, duplicates kept, len() is their count,
\* and get_last_calculation() returns the one added last.
C4_InsertionOrder ==
    /\ Listed(get_history(lists)) = added
    /\ History_iter(lists) = added
    /\ History_len(lists) = Len(added)
    /\ added # <<>> => get_last_calculation(lists) = Return(added[Len(added)])

\* C4 happens: three calculations were added, the first of them twice, and
\* get_history() returned the three in that order
C4_Witness ==
    /\ last.op = "get_history"
    /\ Len(added) = 3
    /\ added[1] = added[3]
    /\ added[1] # added[2]
    /\ ret.v = added

\* the step just taken mutated the list get_history() returned
SnapshotMutated == last'.op \in {"snapshot.append", "snapshot.pop", "snapshot.reverse"}
\* the step just taken changed the history while the caller held a snapshot
HistoryChanged == last'.op \in {"add_calculation", "clear_history"} /\ snap # 0

\* C5: get_history() returns a snapshot copy: appending to, removing from or
\* reordering the returned list leaves the stored history as it was, so get_history()
\* and len() report what they reported before; and add_calculation or clear_history
\* leaves a snapshot taken earlier as it was.
C5_SnapshotIsACopy ==
    [][/\ SnapshotMutated =>
              /\ lists'[HistoryList] = lists[HistoryList]
              /\ Listed(get_history(lists')) = Listed(get_history(lists))
              /\ History_len(lists') = History_len(lists)
       /\ HistoryChanged => lists'[snap] = lists[snap]]_vars

\* C5 happens: a calculation was appended to a snapshot, which now holds two entries
\* while the history holds one
C5_Witness ==
    /\ last.op = "snapshot.append"
    /\ Len(lists[snap]) = 2
    /\ lists[snap][2] = last.args[1]
    /\ History_len(lists) = 1

\* C6: clear_history() on a history of any length, the empty one included, leaves
\* length 0 and an empty get_history(); the first calculation added afterwards is the
\* first and the last entry of the history.
C6_ClearStartsAfresh ==
    [][/\ last'.op = "clear_history" =>
              /\ History_len(lists') = 0
              /\ Listed(get_history(lists')) = <<>>
       /\ (last'.op = "add_calculation" /\ added = <<>>) =>
              /\ History_len(lists') = 1
              /\ Listed(get_history(lists'))[1] = last'.args[1]
              /\ get_last_calculation(lists') = Return(last'.args[1])]_vars

\* C6 happens: a history of three entries was cleared, and a calculation was added
\* to it as the first one since
C6_Witness ==
    /\ last.op = "add_calculation"
    /\ cleared = 3
    /\ added = <<last.args[1]>>
    /\ History = added

\* C7: get_last_calculation() raises IndexError "No calculations in history" exactly
\* when the history holds no entries, the call leaves the history empty, and on a
\* history with entries it returns the last one; it never modifies the history.
C7_LastOrEmptyHistory ==
    [][last'.op = "get_last_calculation" =>
           /\ lists' = lists
           /\ (ret'.exc = "IndexError") = (added = <<>>)
           /\ added = <<>> =>
                  /\ ret' = Raise("IndexError", "No calculations in history")
                  /\ History_len(lists') = 0
           /\ added # <<>> => ret' = Return(added[Len(added)])]_vars

\* C7 happens: get_last_calculation() raised on a history whose two entries had been
\* cleared, nothing having been added since
C7_Witness ==
    /\ last.op = "get_last_calculation"
    /\ ret = Raise("IndexError", "No calculations in history")
    /\ cleared = 2
    /\ added = <<>>

\* ------------------------------------------------- a Calculation, in use

CalcOperands == {Dec5, Dec0, Dec2_5}

\* calc = Calculation(a, b, operation): a new instance replaces the one in use
NewCalculation(a, b, operation) ==
    /\ calc' = Calculation(a, b, operation)
    /\ execCount' = 0
    /\ memo' = None
    /\ last' = Op("Calculation", <<>>, <<>>)
    /\ ret' = Return(None)
    /\ UNCHANGED <<lists, snap, loop, out, added, cleared, stream>>

\* calc.result is read (r is how the property's getter went)
Accessed(r) ==
    /\ calc' = r.obj
    /\ ret' = r.res
    /\ execCount' = execCount + r.executed
    /\ memo' = IF memo = None /\ r.res.exc = "none" THEN r.res.v ELSE memo
AccessResult ==
    /\ calc # NoCalculation
    /\ execCount < MaxExec
    /\ Accessed(Calculation_result(calc))
    /\ last' = Op("result", <<>>, <<>>)
    /\ UNCHANGED <<lists, snap, loop, out, added, cleared, stream>>

\* the public attributes are reassigned: calc.a = a, calc.b = b, calc.operation = op
Assigned(name, self) ==
    /\ calc # NoCalculation
    /\ calc' = self
    /\ last' = Op(name, <<>>, <<>>)
    /\ ret' = Return(None)
    /\ UNCHANGED <<lists, snap, loop, out, execCount, added, cleared, memo, stream>>
SetA(a) == Assigned("a =", [calc EXCEPT !.a = a])
SetB(b) == Assigned("b =", [calc EXCEPT !.b = b])
SetOperation(operation) == Assigned("operation =", [calc EXCEPT !.operation = operation])

NextCalc ==
    \/ \E a \in CalcOperands, b \in CalcOperands, operation \in OperationClasses :
           NewCalculation(a, b, operation)
    \/ AccessResult
    \/ \E a \in CalcOperands : SetA(a)
    \/ \E b \in CalcOperands : SetB(b)
    \/ \E operation \in OperationClasses : SetOperation(operation)

SpecCalc == Init /\ [][NextCalc]_vars

\* C8: Calculation.result is memoized: once an access to result has succeeded, every
\* later access on the same instance returns that same value without invoking
\* operation.execute again, whatever was assigned to a, b or operation since.
C8_ResultIsMemoized ==
    [][(memo # None /\ last'.op = "result") =>
           /\ ret' = Return(memo)
           /\ execCount' = execCount
           /\ memo' = memo]_vars

\* C8 happens: result was read, the operands or the operation were reassigned so that
\* executing the operation now would not give that value, and result, read again,
\* returned it, the operation having been executed once in all
C8_Witness ==
    /\ last.op = "result"
    /\ memo # None
    /\ ret = Return(memo)
    /\ execCount = 1
    /\ execute(calc.operation, calc.a, calc.b) # Return(memo)

\* ------------------------------------------------- the Operations, in use

\* the operands: zeros of both signs and of another exponent, integers, fractions, a
\* negative number, the infinities and the NaNs
Operands ==
    {Dec0, Fin(1, <<0>>, 0), Fin(0, <<0, 0>>, -1), Dec5, Fin(0, <<3>>, 0),
     Dec10_5, Dec2_5, Fin(1, <<4>>, 0),
     Inf(0), Inf(1), NaN(0, <<>>), SNaN(0, <<>>)}

\* an operation object and two operands are at hand, nothing else was done
InitOps ==
    /\ lists = <<(<<>>), (<<>>)>>
    /\ snap = 0
    /\ loop = "idle"
    /\ out = <<>>
    /\ last \in {Op("operands", <<>>, <<operation, a, b>>) :
                     operation \in OperationClasses, a \in Operands, b \in Operands}
    /\ ret = Return(None)
    /\ calc = NoCalculation
    /\ execCount = 0
    /\ added = <<>>
    /\ cleared = -1
    /\ memo = None
    /\ stream = <<>>

\* operation.execute(a, b) (r is how it ended)
Executed(r) ==
    /\ ret' = r
    /\ last' = Op("execute", <<>>, last.args)
    /\ UNCHANGED <<lists, snap, loop, out, calc, execCount, added, cleared, memo, stream>>
Execute ==
    /\ last.op = "operands"
    /\ Executed(execute(last.args[1], last.args[2], last.args[3]))

NextOps == Execute

SpecOps == InitOps /\ [][NextOps]_vars

\* ------------------------------------------- the Operations: what is claimed

DivisionByZero == Raise("ValueError", "Cannot divide by zero")

\* C9: Division.execute(a, b) raises ValueError "Cannot divide by zero", and returns
\* no value, for every a (zero included) whenever b is zero, and for no b that is
\* not zero.
C9_DivisionByZero ==
    (last.op = "execute" /\ last.args[1] = "Division") =>
        /\ IsZero(last.args[3]) => (ret = DivisionByZero /\ ret.v = None)
        /\ ~IsZero(last.args[3]) => ret.exc # "ValueError"

\* C9 happens: zero was divided by a zero, and the division raised
C9_Witness ==
    /\ last.op = "execute"
    /\ last.args[1] = "Division"
    /\ IsZero(last.args[2])
    /\ last.args[3] = Fin(1, <<0>>, 0)
    /\ ret = DivisionByZero

\* the signed coefficient of a finite Decimal
Coefficient(x) == (IF x.s = 1 THEN -1 ELSE 1) * DigitsToInt(x.d)
Least(S) == CHOOSE x \in S : \A y \in S : x <= y
\* value(x) <= value(y) for digit sequences without leading zeros
DigitsLeq(x, y) ==
    IF Len(x) # Len(y)
    THEN Len(x) < Len(y)
    ELSE \/ x = y
         \/ \E i \in 1..Len(x) : x[i] < y[i] /\ \A j \in 1..(i - 1) : x[j] = y[j]

\* r is the sum, the difference, the product of the finite a and b, exactly
IsSum(r, a, b, m) ==
    Coefficient(r) * 10 ^ (r.e - m) =
        Coefficient(a) * 10 ^ (a.e - m) + Coefficient(b) * 10 ^ (b.e - m)
IsDifference(r, a, b, m) ==
    Coefficient(r) * 10 ^ (r.e - m) =
        Coefficient(a) * 10 ^ (a.e - m) - Coefficient(b) * 10 ^ (b.e - m)
IsProduct(r, a, b) ==
    /\ r.e >= a.e + b.e
    /\ Coefficient(r) * 10 ^ (r.e - (a.e + b.e)) = Coefficient(a) * Coefficient(b)
\* r is the quotient of the finite a and b /= 0 to the precision: |r * b - a| is at
\* most half a unit in r's last place times |b|, and r is exact or has Prec digits
\* (n is |b|'s coefficient, k is how far a's exponent is above that of r * b)
IsQuotientAt(r, a, n, k) ==
    /\ k >= 0
    /\ Len(r.d) <= Prec
    /\ DigitsLeq(MulAdd(r.d, 2 * n, 0), MulAdd(a.d \o Zeros(k), 2, n))
    /\ DigitsLeq(MulAdd(a.d \o Zeros(k), 2, 0), MulAdd(r.d, 2 * n, n))
    /\ \/ MulAdd(r.d, n, 0) = MulAdd(a.d \o Zeros(k), 1, 0)
       \/ Len(r.d) = Prec
IsQuotient(r, a, b) ==
    /\ r.s = (a.s + b.s) % 2
    /\ IsQuotientAt(r, a, DigitsToInt(b.d), a.e - r.e - b.e)

\* execute returned the number that arithmetic gives for the finite a and b
Computes(operation, a, b, r) ==
    /\ r.exc = "none"
    /\ r.v.k = "fin"
    /\ CASE operation = "Addition" -> IsSum(r.v, a, b, Least({r.v.e, a.e, b.e}))
         [] operation = "Subtraction" -> IsDifference(r.v, a, b, Least({r.v.e, a.e, b.e}))
         [] operation = "Multiplication" -> IsProduct(r.v, a, b)
         [] operation = "Division" -> IsQuotient(r.v, a, b)

\* execute ended as Decimal's operator does on a and b, special values included
AsDecimalDoes(operation, a, b, r) ==
    CASE operation = "Addition" -> r = DecAdd(a, b)
      [] operation = "Subtraction" -> r = DecSub(a, b)
      [] operation = "Multiplication" -> r = DecMul(a, b)
      [] operation = "Division" -> r = DecDiv(a, b)

\* the step just taken called execute where the claim speaks of it: any operands, for
\* Division those with b not zero
Applied(operation, b) ==
    last'.op = "execute" /\ (operation = "Division" => ~IsZero(b))

\* C10: for all operands a and b, Addition.execute(a, b) is a + b, Subtraction's is
\* a - b, Multiplication's is a * b and, for b not zero, Division's is a / b (to the
\* precision of 28 digits); and execute changes nothing: not the history, not the
\* calculator, not the operands.
C10_ExecuteComputes ==
    [][Applied(last'.args[1], last'.args[3]) =>
           /\ AsDecimalDoes(last'.args[1], last'.args[2], last'.args[3], ret')
           /\ (last'.args[2].k = "fin" /\ last'.args[3].k = "fin") =>
                  Computes(last'.args[1], last'.args[2], last'.args[3], ret')
           /\ last'.args = last.args
           /\ UNCHANGED <<lists, snap, loop, out, calc, execCount, added, cleared, memo, stream>>]_vars

\* C10 happens: 5 was divided by 3, and the quotient has 28 digits, the last one
\* rounded up
C10_Witness ==
    /\ last = Op("execute", <<>>, <<"Division", Dec5, Fin(0, <<3>>, 0)>>)
    /\ ret.exc = "none"
    /\ Len(ret.v.d) = 28
    /\ ret.v.d[1] = 1
    /\ ret.v.d[28] = 7
    /\ ret.v.e = -27

\* ------------------------------------ the Calculator: what is claimed, further

\* the symbol that stands for an operator word
SymbolOf(word) ==
    CASE word = <<"a", "d", "d">> -> <<"+">>
      [] word = <<"s", "u", "b", "t", "r", "a", "c", "t">> -> <<"-">>
      [] word = <<"m", "u", "l", "t", "i", "p", "l", "y">> -> <<"*">>
      [] word = <<"d", "i", "v", "i", "d", "e">> -> <<"/">>
OperatorWords ==
    {<<"a", "d", "d">>, <<"s", "u", "b", "t", "r", "a", "c", "t">>,
     <<"m", "u", "l", "t", "i", "p", "l", "y">>, <<"d", "i", "v", "i", "d", "e">>}
\* the line is <number> <word> <number>, the word in any letter case
UsesWord(parts) == Len(parts) = 3 /\ lower(parts[2]) \in OperatorWords
\* the same line with the word's symbol for the word
WithSymbol(parts) == Line3(parts[1], SymbolOf(lower(parts[2])), parts[3])
\* the step just taken did to the history, printed and ended as `done` does
SameAs(done) ==
    /\ lists'[HistoryList] = done.lists[HistoryList]
    /\ out' = done.out
    /\ ret' = done.ret
\* what a result line displays between the operands
ShowsToken(printed, token) ==
    (Len(printed) = 1 /\ printed[1].text = "Result: ") => printed[1].arg[2] = token

\* C11: a REPL line whose operator is one of the words add, subtract, multiply,
\* divide, in any letter case, does what the line with the word's symbol does from
\* the same state: the same result or error, the same history entry, the same
\* displayed text, which shows the symbol and not the word.
C11_WordsAreSymbols ==
    [][(last'.op = "input" /\ UsesWord(split(last'.line))) =>
           /\ SameAs(_process_calculation(lists, WithSymbol(split(last'.line))))
           /\ ShowsToken(out', SymbolOf(lower(split(last'.line)[2])))]_vars

\* C11 happens: "10.5 DIVIDE 2.5" was entered, and the result line reads
\* 10.5 / 2.5 = 4.2
C11_Witness ==
    /\ last.op = "input"
    /\ last.line = Line3(<<"1", "0", ".", "5">>, <<"D", "I", "V", "I", "D", "E">>,
                         <<"2", ".", "5">>)
    /\ out = <<Msg("Result: ", <<Dec10_5, <<"/">>, Dec2_5, Fin(0, <<4, 2>>, -1)>>)>>
    /\ History[Len(History)].operation = "Division"

\* ------------------------------- the Calculator, run on a given input stream

\* an interrupt (Ctrl-C) in the input stream, as opposed to a line
KeyboardInterrupt == <<"KeyboardInterrupt">>

\* what the stream is made of: exit with a capital and blanks around it, a
\* calculation, a division by zero, the empty line, help, history, clear, an
\* interrupt, and a line whose evaluation raises no ValueError
StreamEvents ==
    {<<" ", "E", "x", "i", "t", " ">>,
     Line3(<<"1", "0", ".", "5">>, <<"+">>, <<"2", ".", "5">>),
     Line3(<<"5">>, <<"/">>, <<"0">>),
     <<>>,
     <<"h", "e", "l", "p">>, <<"h", "i", "s", "t", "o", "r", "y">>,
     <<"c", "l", "e", "a", "r">>,
     KeyboardInterrupt,
     Line3(<<"i", "n", "f">>, <<"-">>, <<"i", "n", "f">>)}

Streams == UNION {[1..n -> StreamEvents] : n \in 0..MaxStream}

\* Calculator() with an input stream at hand
InitStream ==
    /\ lists = <<(<<>>), (<<>>)>>
    /\ snap = 0
    /\ loop = "idle"
    /\ out = <<>>
    /\ last = Op("__init__", <<>>, <<>>)
    /\ ret = Return(None)
    /\ calc = NoCalculation
    /\ execCount = 0
    /\ added = <<>>
    /\ cleared = -1
    /\ memo = None
    /\ stream \in Streams

\* input() returns the next line of the stream and the loop body runs on it
StreamLine ==
    /\ loop = "running"
    /\ stream # <<>>
    /\ Head(stream) # KeyboardInterrupt
    /\ \E pass \in {LoopBody(lists, Head(stream))} : Ran(pass)
    /\ last' = Op("input", Head(stream), <<>>)
    /\ stream' = Tail(stream)
    /\ UNCHANGED <<snap, calc, execCount, added, cleared, memo>>

\* a mutant of StreamInterrupt: the handler ends the loop, as the one of EOFError does
StreamInterrupt_Breaks ==
    /\ loop = "running"
    /\ stream # <<>>
    /\ Head(stream) = KeyboardInterrupt
    /\ loop' = "exited"
    /\ out' = <<Msg("Calculator interrupted. Type 'exit' to quit gracefully.", <<>>)>>
    /\ last' = Op("KeyboardInterrupt", <<>>, <<>>)
    /\ ret' = Return(None)
    /\ stream' = Tail(stream)
    /\ UNCHANGED <<lists, snap, calc, execCount, added, cleared, memo>>

\* input() raises the KeyboardInterrupt that comes next in the stream
StreamInterrupt ==
    /\ loop = "running"
    /\ stream # <<>>
    /\ Head(stream) = KeyboardInterrupt
    /\ out' = <<Msg("Calculator interrupted. Type 'exit' to quit gracefully.", <<>>)>>
    /\ last' = Op("KeyboardInterrupt", <<>>, <<>>)
    /\ ret' = Return(None)
    /\ stream' = Tail(stream)
    /\ UNCHANGED <<lists, snap, loop, calc, execCount, added, cleared, memo>>

\* the stream is used up: input() raises EOFError
StreamEnd == stream = <<>> /\ EndOfInput

NextStream ==
    \/ Start
    \/ StreamLine
    \/ StreamInterrupt
    \/ StreamEnd

\* the interpreter keeps running the program: a step that can be taken is taken
SpecStream == InitStream /\ [][NextStream]_vars /\ WF_vars(NextStream)

\* the line is the exit command: exit in some letter case, blanks around it or not
IsExit(line) == line # KeyboardInterrupt /\ lower(strip(line)) = <<"e", "x", "i", "t">>
\* an exit line is still to come
ExitPending == \E i \in DOMAIN stream : IsExit(stream[i])
\* the loop is over: left by the break of an exit line, or by an exception no handler
\* of start() catches
LoopOver ==
    \/ loop = "exited" /\ last.op = "input" /\ IsExit(last.line)
    \/ loop = "crashed"

\* C12: the exit command, in any letter case and with blanks around it, ends the
\* loop without touching the history; after it no further input is read or
\* processed; and whenever an exit line is still to come in the input stream, the
\* loop eventually is over, whatever comes before it.
C12_ExitEndsTheLoop ==
    /\ [][(last'.op = "input" /\ IsExit(last'.line)) =>
              /\ loop' = "exited"
              /\ lists' = lists
              /\ ret'.exc = "none"]_vars
    /\ [][loop = "exited" => (stream' = stream /\ last' = last /\ lists' = lists)]_vars
    /\ ExitPending ~> LoopOver

\* C12 happens: after a calculation, " Exit " ended the loop with a line still unread
C12_Witness ==
    /\ loop = "exited"
    /\ last.op = "input"
    /\ last.line = <<" ", "E", "x", "i", "t", " ">>
    /\ Len(History) = 1
    /\ Len(stream) = 1

\* the last thing that happened is an interrupt, and a line comes next in the stream
LineAfterInterrupt ==
    last.op = "KeyboardInterrupt" /\ stream # <<>> /\ Head(stream) # KeyboardInterrupt
\* the step just taken ran the loop body on the line, as on any line
Processed(line, pass) ==
    /\ last' = Op("input", line, <<>>)
    /\ lists' = pass.done.lists
    /\ out' = pass.done.out
    /\ ret' = pass.done.ret

\* C13: an interrupt raised while the REPL waits for input is caught: the notice is
\* printed, the loop goes on, the history is unchanged; and the line that comes next
\* is read and processed as any line is.
C13_InterruptIsCaught ==
    /\ [][last'.op = "KeyboardInterrupt" =>
              /\ out' = <<Msg("Calculator interrupted. Type 'exit' to quit gracefully.",
                              <<>>)>>
              /\ ret'.exc = "none"
              /\ loop' = "running"
              /\ lists' = lists]_vars
    /\ [][LineAfterInterrupt => Processed(Head(stream), LoopBody(lists, Head(stream)))]_vars
    /\ LineAfterInterrupt ~> (last.op = "input")

\* C13 happens: an interrupt came after a calculation and before another line; the
\* loop is running, the one entry is in the history
C13_Witness ==
    /\ last.op = "KeyboardInterrupt"
    /\ loop = "running"
    /\ Len(History) = 1
    /\ stream = <<Line3(<<"5">>, <<"/">>, <<"0">>)>>

\* the command word of the REPL line just read: the line stripped and lowered
Word == lower(strip(last'.line))
\* the history after the step is the one before it, or that with one entry appended
Kept == lists'[HistoryList] = lists[HistoryList]
Appended ==
    /\ Len(lists'[HistoryList]) = Len(lists[HistoryList]) + 1
    /\ SubSeq(lists'[HistoryList], 1, Len(lists[HistoryList])) = lists[HistoryList]

\* C14: in a Calculator session the history is only appended to or cleared in full:
\* help, history, exit, blank lines (which print nothing) and interrupts leave it as
\* it was, clear empties it, and a calculation line or a calculate() call appends one
\* entry or leaves it as it was; no step removes, reorders or replaces an entry.
C14_AppendedOrCleared ==
    [][/\ (last'.op = "input" /\ Word = <<>>) => (Kept /\ out' = <<>>)
       /\ (last'.op = "input" /\ Word \in ReservedWords \ {<<"c", "l", "e", "a", "r">>}) => Kept
       /\ (last'.op = "input" /\ Word = <<"c", "l", "e", "a", "r">>) =>
              lists'[HistoryList] = <<>>
       /\ (last'.op = "input" /\ IsRequest(last'.line)) => (Kept \/ Appended)
       /\ last'.op = "calculate" => (Kept \/ Appended)
       /\ last'.op \in {"start", "KeyboardInterrupt", "EOFError"} => Kept
       /\ Kept \/ Appended \/ lists'[HistoryList] = <<>>]_vars

\* C14 happens: the history command listed the two entries of the history
C14_Witness ==
    /\ last.op = "input"
    /\ last.line = <<"H", "i", "s", "t", "o", "r", "y", " ">>
    /\ Len(History) = 2
    /\ Len(out) = 4
    /\ out[4].arg[1] = 2

\* the checks of a request, in the order claimed, on its whitespace-separated parts
ThreeParts(parts) == Len(parts) = 3
KnownOperator(parts) == lower(parts[2]) \in DOMAIN operations
Numerals(parts) ==
    DecimalFromString(parts[1]) # NotANumeral /\ DecimalFromString(parts[3]) # NotANumeral
\* the request printed this one error and the hint at help, and nothing else
ReportedOnly(printed, text) ==
    Len(printed) = 2 /\ printed[1].text = text /\ printed[2] = UseHelp
\* the request got as far as the evaluation: it printed the result or the
\* evaluation's error, or the evaluation raised what nothing catches
Evaluated(printed, r) ==
    \/ Len(printed) = 1 /\ printed[1].text = "Result: "
    \/ printed = <<Msg("Error: ", <<"Cannot divide by zero">>)>>
    \/ printed = <<>> /\ r.exc # "none"
\* the first check that fails decides what is reported
FirstFailure(parts, printed, r) ==
    IF ~ThreeParts(parts)
    THEN ReportedOnly(printed,
                      "Error: Invalid input format. Expected: <number> <operation> <number>")
    ELSE IF ~KnownOperator(parts)
    THEN ReportedOnly(printed, "Error: Unknown operation: ") /\ printed[1].arg = lower(parts[2])
    ELSE IF ~Numerals(parts)
    THEN ReportedOnly(printed, "Error: Invalid number format: ")
    ELSE Evaluated(printed, r)

\* C15: _process_calculation checks a line in a fixed order and reports the first
\* failure only: the number of parts (three), then the operator, then the operands,
\* then the evaluation.  An unknown operator with an unparseable operand is reported
\* as unknown operation, an unparseable operand with a division by zero as invalid
\* number format.
C15_FirstFailureOnly ==
    (last.op = "input" /\ IsRequest(last.line)) => FirstFailure(split(last.line), out, ret)

\* C15 happens: "abc / 0" was entered, and what is reported is the number format
C15_Witness ==
    /\ last.op = "input"
    /\ last.line = Line3(<<"a", "b", "c">>, <<"/">>, <<"0">>)
    /\ out = <<Msg("Error: Invalid number format: ", <<>>), UseHelp>>
    /\ Len(History) = 1

\* ------------------------------------ a Calculation: what is claimed, further

\* calc is a division by zero that no access has evaluated with success
FailingDivision == memo = None /\ calc.operation = "Division" /\ IsZero(calc.b)

\* C16: a failed evaluation is not cached: every access to the result of a division
\* by zero executes the operation once more and raises ValueError "Cannot divide by
\* zero", the first access and every later one, and leaves the instance as it was,
\* its cache unset; no access returns a value.
C16_FailureIsNotCached ==
    [][(FailingDivision /\ last'.op = "result") =>
           /\ ret' = DivisionByZero
           /\ execCount' = execCount + 1
           /\ calc' = calc
           /\ calc'._result = None
           /\ memo' = None]_vars

\* C16 happens: the result of 5 / 0 was read for the third time, the operation was
\* executed three times, and the access raised
C16_Witness ==
    /\ last.op = "result"
    /\ calc = Calculation(Dec5, Dec0, "Division")
    /\ execCount = 3
    /\ ret = DivisionByZero

\* --------------------------------- the Calculator's history: what is claimed

\* entry c has its result cached, and is no division by zero
Settled(c) == c._result # None /\ ~(c.operation = "Division" /\ IsZero(c.b))
\* line i of a listing shows entry c under number i with its cached result
Lists(line, i, c) ==
    /\ line.text = "{i:2d}. "
    /\ line.arg[1] = i
    /\ line.arg[2] = <<c.a, Operation_str(c.operation), c.b, c._result>>
\* the history command, given now, returns, changes no entry, and lists the entries
\* from 1 in insertion order after its two heading lines
ListsAll(shown) ==
    /\ shown.ret.exc = "none"
    /\ shown.lists = lists
    /\ History # <<>> =>
           /\ Len(shown.out) = Len(History) + 2
           /\ \A i \in DOMAIN History : Lists(shown.out[i + 2], i, History[i])

\* C17: in every state of a Calculator driven through REPL lines and calculate(),
\* each entry of the history has its result computed and cached, and none is a
\* Division with a zero second operand; so listing the history never raises and
\* never executes an operation again, and numbers the entries from 1 in insertion
\* order.
C17_EntriesAreSettled ==
    /\ \A i \in DOMAIN History :
           /\ Settled(History[i])
           /\ Calculation_result(History[i]).executed = 0
    /\ ListsAll(_show_history(lists))

\* C17 happens: the history command listed two entries, a division first
C17_Witness ==
    /\ last.op = "input"
    /\ last.line = <<"h", "i", "s", "t", "o", "r", "y">>
    /\ ret.exc = "none"
    /\ Len(History) = 2
    /\ History[1].operation = "Division"
    /\ Lists(out[3], 1, History[1])
    /\ Lists(out[4], 2, History[2])

====
